---- MODULE Spec2Model ----
(***************************************************************************)
(* A model of the Sirsi "Hold Pickup List" report tool: the field parsers  *)
(* (AuthorLine, TitleStatement, CopyLine, PickupLine), the entry parser    *)
(* (SirsiEntry), the report (SirsiReport) with its two sorts, the report   *)
(* parser (SirsiParser.parse) and the header pre-pass                      *)
(* (remove_duplicate_headers).                                             *)
(*                                                                         *)
(* A Python str is a sequence of one-character strings.  An Optional value *)
(* is None (the empty sequence) or Some(v) (the one-element sequence).     *)
(* A constructor that raises ValueError yields the value Error.            *)
(***************************************************************************)
EXTENDS Integers, Sequences, FiniteSets, TLC

VARIABLES pc, text, author_line, copy_line, pickup_line, rendered, reparsed,
          entries, header, blocks, k, discarded, origin, sort_order, before,
          lines, result, seen_header, i

vars == <<pc, text, author_line, copy_line, pickup_line, rendered, reparsed,
          entries, header, blocks, k, discarded, origin, sort_order, before,
          lines, result, seen_header, i>>

(***************************************************************************)
(* Python values                                                           *)
(***************************************************************************)
None == <<>>
Some(v) == <<v>>
Error == [error |-> "ValueError"]
Unset == [unset |-> TRUE]

\* The characters str.strip(), str.splitlines() and the regex classes \s, \S
\* and \d tell apart, restricted to the characters the inputs are made of.
Whitespace == {" ", "\n", "\r"}
Digits == {"0", "1", "2", "3", "4", "5", "6", "7", "8", "9"}

Max(a, b) == IF a > b THEN a ELSE b

\* ' ' * n, and more generally c * n
Repeat(c, n) == [j \in 1..n |-> c]

\* s[:-1]
DropLast(s) == IF s = <<>> THEN <<>> ELSE SubSeq(s, 1, Len(s) - 1)

RECURSIVE LStrip(_)
LStrip(s) ==
    IF s # <<>> /\ Head(s) \in Whitespace THEN LStrip(Tail(s)) ELSE s

RECURSIVE RStrip(_)
RStrip(s) ==
    IF s # <<>> /\ s[Len(s)] \in Whitespace THEN RStrip(DropLast(s)) ELSE s

\* str.strip()
Strip(s) == RStrip(LStrip(s))

\* s.startswith(lit, p-1): the literal lit stands in s at position p
HasLit(s, p, lit) ==
    /\ p >= 1
    /\ p + Len(lit) - 1 <= Len(s)
    /\ SubSeq(s, p, p + Len(lit) - 1) = lit

\* s.find(lit) + 1, or 0 when lit is not in s
Find(s, lit) ==
    LET hits == {p \in 1..(Len(s) - Len(lit) + 1) : HasLit(s, p, lit)} IN
    IF hits = {} THEN 0 ELSE CHOOSE p \in hits : \A q \in hits : p <= q

\* lit in s
Contains(s, lit) == Find(s, lit) # 0

\* s.split(sep) for a non-empty separator: every occurrence splits, left to
\* right, and a text without the separator is a single part.
RECURSIVE Split(_, _)
Split(s, sep) ==
    LET p == Find(s, sep) IN
    IF p = 0 THEN <<s>>
    ELSE <<SubSeq(s, 1, p - 1)>> \o Split(SubSeq(s, p + Len(sep), Len(s)), sep)

\* s.split(sep, 1): at most one split, at the first occurrence
SplitOnce(s, sep) ==
    LET p == Find(s, sep) IN
    IF p = 0 THEN <<s>>
    ELSE <<SubSeq(s, 1, p - 1), SubSeq(s, p + Len(sep), Len(s))>>

\* s.split(sep, 2): at most two splits
SplitTwice(s, sep) ==
    LET first == SplitOnce(s, sep) IN
    IF Len(first) = 1 THEN first ELSE <<first[1]>> \o SplitOnce(first[2], sep)

\* The end (exclusive) of the longest run of characters of class cls that
\* starts at p: what a greedy cls* consumes.
RECURSIVE RunEnd(_, _, _)
RunEnd(s, p, cls) ==
    IF p <= Len(s) /\ s[p] \in cls THEN RunEnd(s, p + 1, cls) ELSE p

\* The same for the complement class [^...].
RECURSIVE RunEndNot(_, _, _)
RunEndNot(s, p, cls) ==
    IF p <= Len(s) /\ s[p] \notin cls THEN RunEndNot(s, p + 1, cls) ELSE p

\* Every sequence over alphabet of length at most n
RECURSIVE SeqsUpTo(_, _)
SeqsUpTo(alphabet, n) ==
    IF n = 0 THEN {<<>>}
    ELSE LET shorter == SeqsUpTo(alphabet, n - 1) IN
         shorter \cup {Append(s, c) : s \in {t \in shorter : Len(t) = n - 1},
                                      c \in alphabet}

\* sep.join(parts)
RECURSIVE Join(_, _)
Join(parts, sep) ==
    IF parts = <<>> THEN <<>>
    ELSE IF Len(parts) = 1 THEN parts[1]
    ELSE parts[1] \o sep \o Join(Tail(parts), sep)

(***************************************************************************)
(* AuthorLine                                                              *)
(***************************************************************************)
Comma == <<",">>

\* A faulty variant: the fragment is split at most twice, so the third part is the
\* whole remainder.
AuthorPartsMaxsplit(t) ==
    LET raw == SplitTwice(t, Comma) IN [j \in 1..Len(raw) |-> Strip(raw[j])]

\* parts = [p.strip() for p in text.split(",")]
AuthorParts(t) ==
    LET raw == Split(t, Comma) IN [j \in 1..Len(raw) |-> Strip(raw[j])]

\* AuthorLine.__init__
AuthorLine(t) ==
    LET parts == AuthorParts(t) IN
    [last_name  |-> parts[1],
     first_name |-> IF Len(parts) > 1 THEN parts[2] ELSE <<>>,
     birth_year |-> IF Len(parts) > 2 THEN Some(DropLast(parts[3])) ELSE None]

\* AuthorLine.__str__
AuthorLineStr(a) ==
    IF a.birth_year # None
    THEN <<" ", " ">> \o a.last_name \o <<",", " ">> \o a.first_name
         \o <<",", " ">> \o a.birth_year[1] \o <<"-">>
    ELSE <<" ", " ">> \o a.last_name \o <<",", " ">> \o a.first_name

(***************************************************************************)
(* TitleStatement                                                          *)
(***************************************************************************)
Slash == <<"/">>

\* TitleStatement.__init__
TitleStatement(t) ==
    IF Contains(t, Slash)
    THEN LET parts == SplitOnce(t, Slash) IN
         [title |-> Strip(parts[1]), author |-> Strip(parts[2])]
    ELSE [title |-> Strip(t), author |-> <<>>]

\* TitleStatement.__str__
TitleStatementStr(t) ==
    <<" ", " ">> \o t.title \o <<" ", "/", " ">> \o t.author

(***************************************************************************)
(* CopyLine                                                                *)
(***************************************************************************)
LitCopy == <<"c", "o", "p", "y", ":">>
LitItemId == <<"i", "t", "e", "m", " ", "I", "D", ":">>
LitType == <<"t", "y", "p", "e", ":">>
LitLocation == <<"l", "o", "c", "a", "t", "i", "o", "n", ":">>
Hyphen == <<"-">>

\* The field widths of COPY_LINE_FMT
CopiesWidth == 5
ItemIdWidth == 18
TypeWidth == 12
LocationWidth == 12
CopyIndent == Repeat(" ", 5)

\* int(digits) of a non-empty run of decimal digits
DigitValue(c) ==
    CASE c = "0" -> 0 [] c = "1" -> 1 [] c = "2" -> 2 [] c = "3" -> 3
      [] c = "4" -> 4 [] c = "5" -> 5 [] c = "6" -> 6 [] c = "7" -> 7
      [] c = "8" -> 8 [] c = "9" -> 9

RECURSIVE ParseInt(_)
ParseInt(ds) ==
    IF ds = <<>> THEN 0 ELSE ParseInt(DropLast(ds)) * 10 + DigitValue(ds[Len(ds)])

\* str(n) of a natural number
DigitChar(d) == <<"0", "1", "2", "3", "4", "5", "6", "7", "8", "9">>[d + 1]

RECURSIVE IntToStr(_)
IntToStr(n) ==
    IF n < 10 THEN <<DigitChar(n)>>
    ELSE Append(IntToStr(n \div 10), DigitChar(n % 10))

\* format(s, "<w"): left-justified in w columns, never cut
LJust(s, w) == s \o Repeat(" ", Max(0, w - Len(s)))

\* The match of
\*   copy:(\d+)\s+item ID:(\S+)\s+type:(\S+)\s+location:(\S+)
\* that starts at position p, as its four groups, or None.  Every repetition
\* is followed by a character outside its class (or is the last item), so the
\* greedy match takes each run whole and backtracking finds no other match.
CopyMatchAt(s, p) ==
    LET d0 == p + Len(LitCopy)
        d1 == RunEnd(s, d0, Digits)
        w1 == RunEnd(s, d1, Whitespace)
        i0 == w1 + Len(LitItemId)
        i1 == RunEndNot(s, i0, Whitespace)
        w2 == RunEnd(s, i1, Whitespace)
        t0 == w2 + Len(LitType)
        t1 == RunEndNot(s, t0, Whitespace)
        w3 == RunEnd(s, t1, Whitespace)
        l0 == w3 + Len(LitLocation)
        l1 == RunEndNot(s, l0, Whitespace)
    IN IF /\ HasLit(s, p, LitCopy)
          /\ d1 > d0 /\ w1 > d1 /\ HasLit(s, w1, LitItemId)
          /\ i1 > i0 /\ w2 > i1 /\ HasLit(s, w2, LitType)
          /\ t1 > t0 /\ w3 > t1 /\ HasLit(s, w3, LitLocation)
          /\ l1 > l0
       THEN Some(<<SubSeq(s, d0, d1 - 1), SubSeq(s, i0, i1 - 1),
                   SubSeq(s, t0, t1 - 1), SubSeq(s, l0, l1 - 1)>>)
       ELSE None

\* re.search: the match at the leftmost position that has one, or None
CopySearch(s) ==
    LET starts == {p \in 1..Len(s) : CopyMatchAt(s, p) # None} IN
    IF starts = {} THEN None
    ELSE CopyMatchAt(s, CHOOSE p \in starts : \A q \in starts : p <= q)

\* A faulty variant: the location is cut at every hyphen, and the parts after the
\* second are lost.
LocationPartsAll(loc) == Split(loc, Hyphen)

\* self.location.split("-", 1), for a location that holds a hyphen
LocationParts(loc) == SplitOnce(loc, Hyphen)

\* CopyLine.__init__
CopyLine(line) ==
    LET m == CopySearch(line) IN
    IF m = None THEN Error
    ELSE LET g == m[1]
             location == g[4]
             hyphen == Contains(location, Hyphen)
         IN [copies        |-> ParseInt(g[1]),
             item_id       |-> g[2],
             type          |-> g[3],
             location      |-> location,
             main_location |-> IF hyphen THEN LocationParts(location)[1]
                               ELSE location,
             sub_location  |-> IF hyphen THEN Some(LocationParts(location)[2])
                               ELSE None]

\* CopyLine.__str__
CopyLineStr(c) ==
    CopyIndent
    \o LitCopy \o LJust(IntToStr(c.copies), CopiesWidth)
    \o LitItemId \o LJust(c.item_id, ItemIdWidth)
    \o LitType \o LJust(c.type, TypeWidth)
    \o LitLocation \o LJust(c.location, LocationWidth)

(***************************************************************************)
(* PickupLine                                                              *)
(***************************************************************************)
LitPickup == <<"P", "i", "c", "k", "u", "p", " ", "l", "i", "b", "r", "a", "r", "y", ":", "\"">>
LitDischarge == <<"D", "a", "t", "e", " ", "o", "f", " ", "d", "i", "s", "c", "h", "a", "r", "g", "e", ":">>
Quote == {"\""}
TOTAL_WIDTH == 80
PickupIndent == <<" ", " ">>

\* The match of
\*   Pickup library:"([^"]+)"\s+Date of discharge:(\S+)
\* that starts at position p, as its two groups, or None.  [^"]+ cannot run
\* over the closing quote and \s+ cannot run into "Date", so the greedy match
\* is the only one.
PickupMatchAt(s, p) ==
    LET q0 == p + Len(LitPickup)
        q1 == RunEndNot(s, q0, Quote)
        w1 == RunEnd(s, q1 + 1, Whitespace)
        d0 == w1 + Len(LitDischarge)
        d1 == RunEndNot(s, d0, Whitespace)
    IN IF /\ HasLit(s, p, LitPickup)
          /\ q1 > q0 /\ HasLit(s, q1, <<"\"">>)
          /\ w1 > q1 + 1 /\ HasLit(s, w1, LitDischarge)
          /\ d1 > d0
       THEN Some(<<SubSeq(s, q0, q1 - 1), SubSeq(s, d0, d1 - 1)>>)
       ELSE None

PickupSearch(s) ==
    LET starts == {p \in 1..Len(s) : PickupMatchAt(s, p) # None} IN
    IF starts = {} THEN None
    ELSE PickupMatchAt(s, CHOOSE p \in starts : \A q \in starts : p <= q)

\* PickupLine.__init__
PickupLine(line) ==
    LET m == PickupSearch(line) IN
    IF m = None THEN Error
    ELSE [pickup_library |-> m[1][1], discharge_date |-> m[1][2]]

\* A faulty variant: the padding is not kept at one space or more.
PickupPaddingUnclamped(left, right) ==
    Max(0, TOTAL_WIDTH - Len(PickupIndent) - Len(left) - Len(right))

\* padding = max(1, TOTAL_WIDTH - len(indent) - len(left) - len(right))
PickupPadding(left, right) ==
    Max(1, TOTAL_WIDTH - Len(PickupIndent) - Len(left) - Len(right))

\* PickupLine.__str__
PickupLineStr(pl) ==
    LET left == LitPickup \o pl.pickup_library \o <<"\"">>
        right == LitDischarge \o pl.discharge_date
    IN PickupIndent \o left \o Repeat(" ", PickupPadding(left, right)) \o right

(***************************************************************************)
(* SirsiEntry                                                              *)
(***************************************************************************)
LineBreaks == {"\n", "\r"}

\* str.splitlines(): a line ends at "\n", "\r" or "\r\n"; a text that ends
\* with a line break has no empty last line.
RECURSIVE SplitLines(_)
SplitLines(s) ==
    LET p == RunEndNot(s, 1, LineBreaks) IN
    IF s = <<>> THEN <<>>
    ELSE IF p > Len(s) THEN <<s>>
    ELSE LET n == IF HasLit(s, p, <<"\r", "\n">>) THEN 2 ELSE 1 IN
         <<SubSeq(s, 1, p - 1)>> \o SplitLines(SubSeq(s, p + n, Len(s)))

\* A faulty variant: the block is not trimmed before it is cut into lines.
EntryLinesUntrimmed(raw_block) == SplitLines(raw_block)

\* lines = raw_block.strip().splitlines()
EntryLines(raw_block) == SplitLines(Strip(raw_block))

\* SirsiEntry.__init__
SirsiEntry(raw_block) ==
    LET ls == EntryLines(raw_block) IN
    IF Len(ls) < 5 THEN Error
    ELSE IF CopyLine(ls[4]) = Error THEN Error
    ELSE IF PickupLine(ls[5]) = Error THEN Error
    ELSE [alpha_key       |-> Strip(ls[1]),
          author_line     |-> AuthorLine(Strip(ls[2])),
          title_statement |-> TitleStatement(Strip(ls[3])),
          copy_line       |-> CopyLine(ls[4]),
          pickup_line     |-> PickupLine(ls[5])]

\* SirsiEntry.__str__
SirsiEntryStr(e) ==
    e.alpha_key \o <<"\n">> \o AuthorLineStr(e.author_line) \o <<"\n">>
    \o TitleStatementStr(e.title_statement) \o <<"\n">>
    \o CopyLineStr(e.copy_line) \o <<"\n">> \o PickupLineStr(e.pickup_line)

(***************************************************************************)
(* SirsiReport                                                             *)
(***************************************************************************)
\* ord(c), for the characters of the names the reports are made of
Ord(c) ==
    CASE c = " " -> 32 [] c = "-" -> 45
      [] c = "A" -> 65 [] c = "B" -> 66 [] c = "C" -> 67
      [] c = "a" -> 97 [] c = "b" -> 98 [] c = "c" -> 99

\* a < b on str: by code point at the first difference, a proper prefix first
RECURSIVE StrLess(_, _)
StrLess(a, b) ==
    IF b = <<>> THEN FALSE
    ELSE IF a = <<>> THEN TRUE
    ELSE IF Head(a) = Head(b) THEN StrLess(Tail(a), Tail(b))
    ELSE Ord(Head(a)) < Ord(Head(b))

\* sort_order.index(loc): the 0-based place of the first occurrence
RECURSIVE ListIndex(_, _)
ListIndex(sort_order_, loc) ==
    IF Head(sort_order_) = loc THEN 0 ELSE 1 + ListIndex(Tail(sort_order_), loc)

\* loc in sort_order
ListHas(sort_order_, loc) == \E j \in 1..Len(sort_order_) : sort_order_[j] = loc

\* A faulty variant: an unlisted location ranks first.
LocIndexUnlistedFirst(sort_order_, loc) ==
    IF ListHas(sort_order_, loc) THEN ListIndex(sort_order_, loc) ELSE -1

\* sort_order.index(loc) if loc in sort_order else len(sort_order)
LocIndex(sort_order_, loc) ==
    IF ListHas(sort_order_, loc) THEN ListIndex(sort_order_, loc)
    ELSE Len(sort_order_)

\* location_sort_key of sort_by_location
location_sort_key(sort_order_, entry) ==
    LocIndex(sort_order_, entry.copy_line.main_location)

\* A faulty variant: the first name is left out of the key.
keyWithoutFirst(sort_order_, entry) ==
    <<LocIndex(sort_order_, entry.copy_line.main_location),
      entry.author_line.last_name, <<>>>>

\* A faulty variant: the alpha key breaks ties.
keyWithAlpha(sort_order_, entry) ==
    <<LocIndex(sort_order_, entry.copy_line.main_location),
      entry.author_line.last_name,
      entry.author_line.first_name \o <<" ">> \o entry.alpha_key>>

\* key of sort_by_location_and_author: (loc_index, last, first)
key(sort_order_, entry) ==
    <<LocIndex(sort_order_, entry.copy_line.main_location),
      entry.author_line.last_name,
      entry.author_line.first_name>>

\* a < b on the tuples (int, str, str)
TupleLess(a, b) ==
    \/ a[1] < b[1]
    \/ a[1] = b[1] /\ StrLess(a[2], b[2])
    \/ a[1] = b[1] /\ a[2] = b[2] /\ StrLess(a[3], b[3])

\* The comparison list.sort makes between two entries: key(a) < key(b)
EntryLess(mode, sort_order_, a, b) ==
    IF mode = "location"
    THEN location_sort_key(sort_order_, a) < location_sort_key(sort_order_, b)
    ELSE TupleLess(key(sort_order_, a), key(sort_order_, b))

\* list.sort(key=...): ascending and stable.  An entry is placed after every
\* entry already placed that is not greater than it.
RECURSIVE Insert(_, _, _, _)
Insert(mode, sort_order_, sorted, x) ==
    IF sorted = <<>> THEN <<x>>
    ELSE IF EntryLess(mode, sort_order_, x, sorted[Len(sorted)])
    THEN Append(Insert(mode, sort_order_, DropLast(sorted), x),
                sorted[Len(sorted)])
    ELSE Append(sorted, x)

RECURSIVE ListSort(_, _, _)
ListSort(mode, sort_order_, items) ==
    IF items = <<>> THEN <<>>
    ELSE Insert(mode, sort_order_,
                ListSort(mode, sort_order_, DropLast(items)),
                items[Len(items)])

\* SirsiReport.__str__
SirsiReportStr(header_, entries_) ==
    header_ \o Join([j \in 1..Len(entries_) |-> SirsiEntryStr(entries_[j])],
                    <<"\n", "\n">>)

(***************************************************************************)
(* SirsiParser                                                             *)
(***************************************************************************)
LitHold == <<"H", "O", "L", "D", " ", "P", "I", "C", "K", "U", "P", " ", "L", "I", "S", "T">>
LitProduced == <<"P", "r", "o", "d", "u", "c", "e", "d">>
LitLibrary == <<"L", "i", "b", "r", "a", "r", "y", ":">>
BlankLine == <<"\n", "\n">>

\* Whether the characters of s from a to b-1 hold a line feed
HasNewline(s, a, b) == \E p \in a..(b - 1) : s[p] = "\n"

\* The match of HEADER_PATTERN that starts at position p, as its text, or
\* None.  Between two lines the pattern \s*\n\s*\n?\s* takes a whole run of
\* whitespace that holds a line feed: the next item starts with a character
\* that is not whitespace, so the run is taken to its end.
HeaderMatchAt(s, p) ==
    LET h0 == RunEnd(s, p, Whitespace)
        h1 == h0 + Len(LitHold)
        p0 == RunEnd(s, h1, Whitespace)
        p1 == p0 + Len(LitProduced)
        q0 == RunEnd(s, p1, Whitespace)
        q1 == RunEndNot(s, q0 + 1, Quote)
        l0 == RunEnd(s, q1 + 1, Whitespace)
        l1 == l0 + Len(LitLibrary)
        r0 == RunEnd(s, l1, Whitespace)
        r1 == RunEndNot(s, r0 + 1, Quote)
        e  == RunEnd(s, r1 + 1, Whitespace)
    IN IF /\ HasLit(s, h0, LitHold)
          /\ HasNewline(s, h1, p0) /\ HasLit(s, p0, LitProduced)
          /\ q0 > p1 /\ HasLit(s, q0, <<"\"">>)
          /\ q1 > q0 + 1 /\ HasLit(s, q1, <<"\"">>)
          /\ HasNewline(s, q1 + 1, l0) /\ HasLit(s, l0, LitLibrary)
          /\ r0 > l1 /\ HasLit(s, r0, <<"\"">>)
          /\ r1 > r0 + 1 /\ HasLit(s, r1, <<"\"">>)
       THEN Some(SubSeq(s, p, e - 1))
       ELSE None

\* match = HEADER_PATTERN.search(self.text); match.group(0) if match else ""
HeaderOf(s) ==
    LET starts == {p \in 1..Len(s) : HeaderMatchAt(s, p) # None} IN
    IF starts = {} THEN <<>>
    ELSE HeaderMatchAt(s, CHOOSE p \in starts : \A q \in starts : p <= q)[1]

\* blocks = [b for b in self.text.split("\n\n") if b.strip()]
BlocksOf(s) == SelectSeq(Split(s, BlankLine), LAMBDA b : Strip(b) # <<>>)

\* The exceptions the loop of parse catches
ParseExceptNone == {}

ParseExcept == {"ValueError"}

(***************************************************************************)
(* remove_duplicate_headers                                                *)
(***************************************************************************)
\* s.replace(old, new): every occurrence of old, left to right
Replace(s, old, new) == Join(Split(s, old), new)

\* text.replace("\r\n", "\n").replace("\r", "\n")
NormalizeLineEndings(s) ==
    Replace(Replace(s, <<"\r", "\n">>, <<"\n">>), <<"\r">>, <<"\n">>)

\* lines[a:b], with 0-based a and b and the slice cut at the end of the list
ListSlice(l, a, b) ==
    SubSeq(l, a + 1, IF b < Len(l) THEN b ELSE Len(l))

\* A faulty variant: the header section is copied whether or not one was seen.
KeepsHeaderAlways(seen) == TRUE

\* if not seen_header
KeepsHeader(seen) == ~seen

(***************************************************************************)
(* Inputs                                                                  *)
(***************************************************************************)
\* The longest fragment given to AuthorLine
MaxFragmentLen == 5
\* The longest location token given to CopyLine
MaxLocationLen == 4
\* The longest pickup library name given to PickupLine
MaxLibraryLen == 40
\* The most blocks of a report text given to SirsiParser
MaxBlocks == 3
\* The most entries of a report that is sorted
MaxEntries == 3
\* The most lines of a text given to remove_duplicate_headers
MaxLines == 7
\* The most lines of such a text whose lines end in a carriage return
MaxCarriageLines == 3

AuthorInputs == SeqsUpTo({"a", ",", " ", "-"}, MaxFragmentLen)

\* A copy line with the given digits, gap between the fields, and tokens
CopyText(digits, gap, item, type, loc) ==
    LitCopy \o digits \o gap \o LitItemId \o item \o gap
    \o LitType \o type \o gap \o LitLocation \o loc

LocationInputs == SeqsUpTo({"F", "-"}, MaxLocationLen) \ {<<>>}

CopyInputs ==
    {CopyText(d, g, it, <<"B">>, loc) :
        d \in {<<"2">>, <<"0", "0", "7">>, <<"9", "9", "9", "9">>,
               <<"1", "2", "3", "4", "5">>},
        g \in {<<>>, <<" ">>, <<" ", " ", " ">>},
        it \in {Repeat("A", n) : n \in {1, ItemIdWidth - 1, ItemIdWidth}},
        loc \in LocationInputs}
    \cup
    {<<" ">> \o CopyText(<<"1">>, <<" ">>, <<"A">>, Repeat("T", n), <<"F">>) :
        n \in {1, TypeWidth - 1, TypeWidth}}

\* A pickup line with the given library name, gap and date
PickupText(lib, gap, date) ==
    PickupIndent \o LitPickup \o lib \o <<"\"">> \o gap \o LitDischarge \o date

PickupInputs ==
    {PickupText(Repeat(c, n), g, Repeat("1", m)) :
        c \in {"L", " "}, n \in 0..MaxLibraryLen, g \in {<<>>, <<" ">>},
        m \in {1, 2, 10}}

GoodCopy == CopyText(<<"1">>, <<" ">>, <<"I">>, <<"B">>, <<"F">>)
GoodPickup == PickupText(<<"L">>, <<" ">>, <<"1">>)

\* A block of five lines: key, author, title, copy line, pickup line
EntryBlock(alpha, author, loc) ==
    Join(<<alpha, <<" ", " ">> \o author, <<" ", " ", "T", " ", "/", " ", "A">>,
           <<" ">> \o CopyText(<<"1">>, <<" ">>, <<"I">>, <<"B">>, loc),
           GoodPickup>>, <<"\n">>)

\* The blocks the report texts are made of: a well-formed entry; a block of
\* three lines; a block of five lines whose author and title lines hold only
\* a space; a block of four lines that lacks the author line; a block whose
\* copy line does not parse; a block whose pickup line does not parse.
ParseBlocks ==
    {EntryBlock(<<"b">>, <<"B", ",", " ", "A", ",", " ", "1", "9", "5", "0", "-">>, <<"N", "-", "A">>),
     Join(<<<<"a">>, <<" ", " ", "A", ",", " ", "B">>, <<" ", " ", "T", " ", "/", " ", "A">>>>, <<"\n">>),
     Join(<<<<"a">>, <<" ">>, <<" ">>, GoodCopy, GoodPickup>>, <<"\n">>),
     Join(<<<<"a">>, <<" ", " ", "T", " ", "/", " ", "A">>, GoodCopy, GoodPickup>>, <<"\n">>),
     Join(<<<<"a">>, <<" ", " ", "A", ",", " ", "B">>, <<" ", " ", "T", " ", "/", " ", "A">>, <<"c", "o", "p", "y", ":", "1", "i", "t", "e", "m", " ", "I", "D", ":", "I">>, GoodPickup>>,
          <<"\n">>),
     Join(<<<<"a">>, <<" ", " ", "A", ",", " ", "B">>, <<" ", " ", "T", " ", "/", " ", "A">>, GoodCopy, <<"P", "i", "c", "k", "u", "p", " ", "l", "i", "b", "r", "a", "r", "y", ":", "L">>>>,
          <<"\n">>)}

SampleHeader == <<"H", "O", "L", "D", " ", "P", "I", "C", "K", "U", "P", " ", "L", "I", "S", "T">> \o <<"\n">> \o <<"P", "r", "o", "d", "u", "c", "e", "d", " ", "\"", "M", "\"">> \o <<"\n">>
                \o <<"L", "i", "b", "r", "a", "r", "y", ":", " ", "\"", "L", "\"">> \o <<"\n", "\n">>

\* Report texts: blocks separated by one blank line, or a header and blocks
\* separated by two blank lines
ParseInputs ==
    {h[1] \o Join(bs, h[2]) :
        h \in {<<<<>>, <<"\n", "\n">>>>, <<SampleHeader, <<"\n", "\n", "\n">>>>},
        bs \in SeqsUpTo(ParseBlocks, MaxBlocks) \ {<<>>}}

\* The entries the reports that are sorted are made of
EntryPool ==
    {SirsiEntry(EntryBlock(<<"a">>, <<"A", ",", " ", "A">>, <<"A">>)),
     SirsiEntry(EntryBlock(<<"b">>, <<"A", ",", " ", "A">>, <<"A">>)),
     SirsiEntry(EntryBlock(<<"a">>, <<"A", ",", " ", "B">>, <<"A">>)),
     SirsiEntry(EntryBlock(<<"a">>, <<"A", "b">>, <<"B", "-", "A">>)),
     SirsiEntry(EntryBlock(<<"a">>, <<"a", ",", " ", "A">>, <<"B", "-", "A">>)),
     SirsiEntry(EntryBlock(<<"a">>, <<"A", ",", " ", "A">>, <<"B">>)),
     SirsiEntry(EntryBlock(<<"a">>, <<"A", ",", " ", "A">>, <<"C">>)),
     SirsiEntry(EntryBlock(<<"b">>, <<"A", ",", " ", "A">>, <<"C">>))}

\* The priority lists the reports are sorted by
Orders == {<<>>, <<<<"A">>>>, <<<<"B">>, <<"A">>>>, <<<<"C">>, <<"B">>, <<"C">>>>}

\* The lines the texts given to remove_duplicate_headers are made of
DedupLines == {LitHold, <<" ">> \o LitHold \o <<" ">>, <<"x">>}

\* Texts of lines that end in "\n", and shorter ones of lines that end in
\* "\r\n" or "\r"
DedupInputs ==
    {Join(ls, <<"\n">>) : ls \in SeqsUpTo(DedupLines, MaxLines) \ {<<>>}}
    \cup
    {Join(ls, eol) : ls \in SeqsUpTo(DedupLines, MaxCarriageLines) \ {<<>>},
                     eol \in {<<"\r", "\n">>, <<"\r">>}}

(***************************************************************************)
(* State and actions                                                       *)
(*                                                                         *)
(* pc is the place of the run.  text is the input of the operation under   *)
(* way.  before, discarded and origin are history variables: the report as *)
(* it was when the last sort began, the number of blocks parse has         *)
(* skipped, and for each entry of the report the place of its block among  *)
(* the non-empty blocks.                                                   *)
(***************************************************************************)
fieldVars == <<author_line, copy_line, pickup_line, rendered, reparsed>>
reportVars == <<entries, header, sort_order, before>>
parseVars == <<blocks, k, discarded, origin>>
dedupVars == <<lines, result, seen_header, i>>

NoFields ==
    /\ author_line = Unset /\ copy_line = Unset /\ pickup_line = Unset
    /\ rendered = Unset /\ reparsed = Unset
NoReport ==
    /\ entries = Unset /\ header = Unset /\ sort_order = Unset /\ before = Unset
NoParse == blocks = Unset /\ k = 0 /\ discarded = 0 /\ origin = Unset
NoDedup == lines = Unset /\ result = Unset /\ seen_header = FALSE /\ i = 0

\* ---- AuthorLine ----
InitAuthor ==
    /\ pc = "fragment" /\ text \in AuthorInputs
    /\ NoFields /\ NoReport /\ NoParse /\ NoDedup

AuthorLineInit ==
    /\ pc = "fragment"
    /\ author_line' = AuthorLine(text)
    /\ pc' = "author"
    /\ UNCHANGED <<text, copy_line, pickup_line, rendered, reparsed,
                   reportVars, parseVars, dedupVars>>

AuthorLineRender ==
    /\ pc = "author"
    /\ rendered' = AuthorLineStr(author_line)
    /\ pc' = "author_rendered"
    /\ UNCHANGED <<text, author_line, copy_line, pickup_line, reparsed,
                   reportVars, parseVars, dedupVars>>

NextAuthor == AuthorLineInit \/ AuthorLineRender

SpecAuthor == InitAuthor /\ [][NextAuthor]_vars

\* ---- CopyLine ----
InitCopy ==
    /\ pc = "line" /\ text \in CopyInputs
    /\ NoFields /\ NoReport /\ NoParse /\ NoDedup

CopyLineInit ==
    /\ pc = "line"
    /\ copy_line' = CopyLine(text)
    /\ pc' = IF copy_line' = Error THEN "copy_raised" ELSE "copy"
    /\ UNCHANGED <<text, author_line, pickup_line, rendered, reparsed,
                   reportVars, parseVars, dedupVars>>

CopyLineRender ==
    /\ pc = "copy"
    /\ rendered' = CopyLineStr(copy_line)
    /\ pc' = "copy_rendered"
    /\ UNCHANGED <<text, author_line, copy_line, pickup_line, reparsed,
                   reportVars, parseVars, dedupVars>>

\* CopyLine(str(copy_line))
CopyLineReparse ==
    /\ pc = "copy_rendered"
    /\ reparsed' = CopyLine(rendered)
    /\ pc' = IF reparsed' = Error THEN "reparse_raised" ELSE "reparsed"
    /\ UNCHANGED <<text, author_line, copy_line, pickup_line, rendered,
                   reportVars, parseVars, dedupVars>>

NextCopy == CopyLineInit \/ CopyLineRender \/ CopyLineReparse

SpecCopy == InitCopy /\ [][NextCopy]_vars

\* ---- PickupLine ----
InitPickup ==
    /\ pc = "line" /\ text \in PickupInputs
    /\ NoFields /\ NoReport /\ NoParse /\ NoDedup

PickupLineInit ==
    /\ pc = "line"
    /\ pickup_line' = PickupLine(text)
    /\ pc' = IF pickup_line' = Error THEN "pickup_raised" ELSE "pickup"
    /\ UNCHANGED <<text, author_line, copy_line, rendered, reparsed,
                   reportVars, parseVars, dedupVars>>

PickupLineRender ==
    /\ pc = "pickup"
    /\ rendered' = PickupLineStr(pickup_line)
    /\ pc' = "pickup_rendered"
    /\ UNCHANGED <<text, author_line, copy_line, pickup_line, reparsed,
                   reportVars, parseVars, dedupVars>>

NextPickup == PickupLineInit \/ PickupLineRender

SpecPickup == InitPickup /\ [][NextPickup]_vars

\* ---- SirsiParser.parse ----
InitParse ==
    /\ pc = "text" /\ text \in ParseInputs
    /\ NoFields /\ NoReport /\ NoParse /\ NoDedup

\* The header is matched and the text is cut into its non-empty blocks.
ParseBegin ==
    /\ pc = "text"
    /\ header' = HeaderOf(text)
    /\ blocks' = BlocksOf(text)
    /\ entries' = <<>>
    /\ k' = 0 /\ discarded' = 0 /\ origin' = <<>>
    /\ pc' = "blocks"
    /\ UNCHANGED <<text, fieldVars, sort_order, before, dedupVars>>

\* One turn of the loop over the blocks: the entry is built and kept, or the
\* ValueError it raises is caught and the block is skipped.
ParseBlock ==
    /\ pc = "blocks" /\ k < Len(blocks)
    /\ LET entry == SirsiEntry(blocks[k + 1]) IN
       IF entry # Error
       THEN /\ entries' = Append(entries, entry)
            /\ origin' = Append(origin, k + 1)
            /\ discarded' = discarded
            /\ pc' = "blocks"
       ELSE /\ entries' = entries
            /\ origin' = origin
            /\ discarded' = discarded + 1
            /\ pc' = IF entry.error \in ParseExcept THEN "blocks"
                     ELSE "parse_raised"
    /\ k' = k + 1
    /\ UNCHANGED <<text, fieldVars, header, blocks, sort_order, before,
                   dedupVars>>

\* return SirsiReport(header, entries)
ParseReturn ==
    /\ pc = "blocks" /\ k = Len(blocks)
    /\ pc' = "parsed"
    /\ UNCHANGED <<text, fieldVars, reportVars, parseVars, dedupVars>>

NextParse == ParseBegin \/ ParseBlock \/ ParseReturn

SpecParse == InitParse /\ [][NextParse]_vars

\* ---- SirsiReport ----
\* SirsiReport(header): a report without entries
InitSort ==
    /\ pc = "report" /\ text = Unset
    /\ entries = <<>> /\ header \in {<<>>, SampleHeader}
    /\ sort_order = Unset /\ before = Unset
    /\ NoFields /\ NoParse /\ NoDedup

\* SirsiReport.add_entry
AddEntry ==
    /\ pc \in {"report", "sorted_by_location", "sorted_by_location_and_author"}
    /\ Len(entries) < MaxEntries
    /\ \E entry \in EntryPool : entries' = Append(entries, entry)
    /\ pc' = "report"
    /\ sort_order' = Unset /\ before' = Unset
    /\ UNCHANGED <<text, fieldVars, header, parseVars, dedupVars>>

\* SirsiReport.sort_by_location
SortByLocation ==
    /\ pc \in {"report", "sorted_by_location", "sorted_by_location_and_author"}
    /\ \E order \in Orders :
          /\ sort_order' = order
          /\ entries' = ListSort("location", order, entries)
    /\ before' = [header |-> header, entries |-> entries]
    /\ pc' = "sorted_by_location"
    /\ UNCHANGED <<text, fieldVars, header, parseVars, dedupVars>>

\* SirsiReport.sort_by_location_and_author
SortByLocationAndAuthor ==
    /\ pc \in {"report", "sorted_by_location", "sorted_by_location_and_author"}
    /\ \E order \in Orders :
          /\ sort_order' = order
          /\ entries' = ListSort("location_and_author", order, entries)
    /\ before' = [header |-> header, entries |-> entries]
    /\ pc' = "sorted_by_location_and_author"
    /\ UNCHANGED <<text, fieldVars, header, parseVars, dedupVars>>

NextSort == AddEntry \/ SortByLocation \/ SortByLocationAndAuthor

SpecSort == InitSort /\ [][NextSort]_vars

\* ---- remove_duplicate_headers ----
InitDedup ==
    /\ pc = "text" /\ text \in DedupInputs
    /\ NoFields /\ NoReport /\ NoParse /\ NoDedup

\* The line endings are normalised and the text is cut into lines.
DedupBegin ==
    /\ pc = "text"
    /\ lines' = Split(NormalizeLineEndings(text), <<"\n">>)
    /\ result' = <<>>
    /\ seen_header' = FALSE
    /\ i' = 0
    /\ pc' = "loop"
    /\ UNCHANGED <<text, fieldVars, reportVars, parseVars>>

\* One turn of the while loop
DedupStep ==
    /\ pc = "loop" /\ i < Len(lines)
    /\ IF Contains(lines[i + 1], LitHold)
       THEN /\ result' = IF KeepsHeader(seen_header)
                         THEN result \o ListSlice(lines, i, i + 6)
                         ELSE result
            /\ seen_header' = IF KeepsHeader(seen_header) THEN TRUE
                              ELSE seen_header
            /\ i' = i + 6
       ELSE /\ i' = i + 1
            /\ result' = Append(result, lines[i + 1])
            /\ seen_header' = seen_header
    /\ pc' = "loop"
    /\ UNCHANGED <<text, fieldVars, reportVars, parseVars, lines>>

\* return "\n".join(result)
DedupReturn ==
    /\ pc = "loop" /\ i >= Len(lines)
    /\ rendered' = Join(result, <<"\n">>)
    /\ pc' = "deduplicated"
    /\ UNCHANGED <<text, author_line, copy_line, pickup_line, reparsed,
                   reportVars, parseVars, dedupVars>>

NextDedup == DedupBegin \/ DedupStep \/ DedupReturn

SpecDedup == InitDedup /\ [][NextDedup]_vars

(***************************************************************************)
(* Properties                                                              *)
(***************************************************************************)
Sorted == pc \in {"sorted_by_location", "sorted_by_location_and_author"}

\* The rank of a location: its first place in the priority list, counted
\* from 0, or the length of the list when it is not in it
RankOf(order, loc) ==
    LET places == {j \in 1..Len(order) : order[j] = loc} IN
    IF places = {} THEN Len(order)
    ELSE (CHOOSE j \in places : \A m \in places : j <= m) - 1

Listed(order, loc) == \E j \in 1..Len(order) : order[j] = loc

MainLocation(e) == e.copy_line.main_location

\* (last, first) of a <= (last, first) of b, lexicographically
NameLeq(a, b) ==
    LET la == a.author_line.last_name
        lb == b.author_line.last_name
        fa == a.author_line.first_name
        fb == b.author_line.first_name
    IN \/ StrLess(la, lb)
       \/ la = lb /\ (StrLess(fa, fb) \/ fa = fb)

\* C1: after sort_by_location_and_author(order), for any order (the empty
\* list too), every two adjacent entries are in rank order, and in
\* (last_name, first_name) order when their ranks are equal.
C1_AdjacentInKeyOrder ==
    pc = "sorted_by_location_and_author" =>
        \A j \in 1..(Len(entries) - 1) :
            LET r1 == RankOf(sort_order, MainLocation(entries[j]))
                r2 == RankOf(sort_order, MainLocation(entries[j + 1]))
            IN /\ r1 <= r2
               /\ r1 = r2 => NameLeq(entries[j], entries[j + 1])

\* A report of entries at two locations, sorted by the empty list, that the
\* sort has reordered by author
C1_Witness ==
    /\ pc = "sorted_by_location_and_author"
    /\ sort_order = <<>>
    /\ entries # before.entries
    /\ \E a, b \in 1..Len(entries) :
          MainLocation(entries[a]) # MainLocation(entries[b])

\* C6: after either sort, every entry whose main location is in the priority
\* list stands before every entry whose main location is not in it.
C6_ListedBeforeUnlisted ==
    Sorted =>
        \A a, b \in 1..Len(entries) :
            /\ Listed(sort_order, MainLocation(entries[a]))
            /\ ~Listed(sort_order, MainLocation(entries[b]))
            => a < b

\* A report sorted by location in which an unlisted entry stood before a
\* listed one
C6_Witness ==
    /\ pc = "sorted_by_location"
    /\ \E a, b \in 1..Len(before.entries) :
          /\ a < b
          /\ ~Listed(sort_order, MainLocation(before.entries[a]))
          /\ Listed(sort_order, MainLocation(before.entries[b]))

\* Whether entries a and b have equal sort keys under the sort that ran last
SameKey(a, b) ==
    /\ RankOf(sort_order, MainLocation(a)) = RankOf(sort_order, MainLocation(b))
    /\ pc = "sorted_by_location_and_author" =>
          /\ a.author_line.last_name = b.author_line.last_name
          /\ a.author_line.first_name = b.author_line.first_name

Count(s, e) == Cardinality({j \in 1..Len(s) : s[j] = e})

\* C7: both sorts leave the header as it was, leave the list holding the
\* entries it held, each as often as before, and keep the entries of equal
\* sort key in the order they had before the sort.
C7_StablePermutation ==
    Sorted =>
        /\ header = before.header
        /\ Len(entries) = Len(before.entries)
        /\ \A j \in 1..Len(entries) :
              /\ Count(entries, entries[j]) = Count(before.entries, entries[j])
              /\ SelectSeq(entries, LAMBDA e : SameKey(e, entries[j]))
                 = SelectSeq(before.entries, LAMBDA e : SameKey(e, entries[j]))

\* A sort that reordered a report holding two different entries of equal key
C7_Witness ==
    /\ Sorted
    /\ entries # before.entries
    /\ \E a, b \in 1..Len(entries) :
          /\ entries[a] # entries[b]
          /\ SameKey(entries[a], entries[b])

\* The non-empty blocks of a text: the parts between blank lines that hold a
\* character that is not whitespace
NonEmptyBlocks(t) ==
    SelectSeq(Split(t, BlankLine),
              LAMBDA b : \E p \in 1..Len(b) : b[p] \notin Whitespace)

\* C2: parse never aborts on a malformed block; every non-empty block yields
\* one entry or is discarded, so the two counts add up to the number of
\* non-empty blocks, and the entries stand in the order of their blocks.
C2_ParseNeverAborts ==
    /\ pc # "parse_raised"
    /\ pc \in {"blocks", "parsed"} =>
          /\ Len(entries) + discarded = k
          /\ Len(origin) = Len(entries)
          /\ \A j \in 1..Len(entries) :
                /\ origin[j] \in 1..k
                /\ entries[j] = SirsiEntry(NonEmptyBlocks(text)[origin[j]])
                /\ j > 1 => origin[j - 1] < origin[j]
    /\ pc = "parsed" => k = Len(NonEmptyBlocks(text))

\* A parse that has returned two entries from the blocks on either side of a
\* block it discarded
C2_Witness ==
    /\ pc = "parsed"
    /\ discarded = 1
    /\ origin = <<1, 3>>
    /\ entries[1] # entries[2]

\* The lines of a trimmed block
TrimmedLines(b) == SplitLines(Strip(b))

\* Those of them that hold a character that is not whitespace
NonBlankLines(b) == SelectSeq(TrimmedLines(b), LAMBDA l : Strip(l) # <<>>)

\* C5 as stated: no block with fewer than 5 lines, lines of whitespace not
\* counted, yields an entry of the report.
C5_FewerThanFiveNonBlankLines ==
    pc \in {"blocks", "parsed"} =>
        \A j \in 1..Len(origin) : Len(NonBlankLines(blocks[origin[j]])) >= 5

\* C5 as amended: no block with fewer than 5 lines, lines of whitespace
\* counted, yields an entry of the report; a block of 3 lines is dropped.
C5_FewerThanFiveLines ==
    pc \in {"blocks", "parsed"} =>
        \A j \in 1..Len(origin) : Len(TrimmedLines(blocks[origin[j]])) >= 5

\* A parse that has dropped a block of 3 lines and kept a block of 5 lines
\* of which two hold only whitespace
C5_Witness ==
    /\ pc = "parsed"
    /\ \E j \in 1..Len(blocks) :
          /\ \A m \in 1..Len(origin) : origin[m] # j
          /\ Len(TrimmedLines(blocks[j])) = 3
    /\ \E m \in 1..Len(origin) :
          /\ Len(TrimmedLines(blocks[origin[m]])) = 5
          /\ Len(NonBlankLines(blocks[origin[m]])) = 3

\* C3: for every line CopyLine accepts, CopyLine(str(CopyLine(line))) is
\* built without error and has the same copies, item_id, type and location.
C3_RoundTrip ==
    pc \in {"reparsed", "reparse_raised"} =>
        /\ reparsed # Error
        /\ reparsed.copies = copy_line.copies
        /\ reparsed.item_id = copy_line.item_id
        /\ reparsed.type = copy_line.type
        /\ reparsed.location = copy_line.location

HasHyphen(loc) == \E p \in 1..Len(loc) : loc[p] = "-"

\* sub_location taken as a condition: neither None nor the empty string
Truthy(opt) == opt # None /\ opt[1] # <<>>

\* C4 as stated: main_location + ('-' + sub_location if sub_location else '')
\* is the location, and sub_location is None exactly when the location has
\* no hyphen.
C4_ReconstructIfTruthy ==
    pc = "copy" =>
        /\ copy_line.main_location
           \o (IF Truthy(copy_line.sub_location)
               THEN <<"-">> \o copy_line.sub_location[1] ELSE <<>>)
           = copy_line.location
        /\ copy_line.sub_location = None <=> ~HasHyphen(copy_line.location)

\* C4 as amended: main_location + ('-' + sub_location if sub_location is
\* not None else '') is the location, and sub_location is None exactly when
\* the location has no hyphen.
C4_ReconstructIfPresent ==
    pc = "copy" =>
        /\ copy_line.main_location
           \o (IF copy_line.sub_location # None
               THEN <<"-">> \o copy_line.sub_location[1] ELSE <<>>)
           = copy_line.location
        /\ copy_line.sub_location = None <=> ~HasHyphen(copy_line.location)

\* A parsed copy line whose location ends in its only hyphen
C4_Witness ==
    /\ pc = "copy"
    /\ copy_line.location = <<"F", "F", "-">>
    /\ copy_line.sub_location = Some(<<>>)

\* C8: the rendered pickup line is the 2-space indent, the left segment of
\* length L, p spaces and the right segment of length R, with
\* p = max(1, 78 - L - R); it is 80 long when 2 + L + R <= 79 and
\* 2 + L + R + 1 long otherwise.
C8_PickupRenderWidth ==
    pc = "pickup_rendered" =>
        LET L == 16 + Len(pickup_line.pickup_library) + 1
            R == 18 + Len(pickup_line.discharge_date)
            p == IF 78 - L - R >= 1 THEN 78 - L - R ELSE 1
            n == Len(rendered)
        IN /\ n = IF 2 + L + R <= 79 THEN 80 ELSE 2 + L + R + 1
           /\ n = 2 + L + p + R
           /\ SubSeq(rendered, 1, 2) = <<" ", " ">>
           /\ SubSeq(rendered, 3, 2 + L)
              = LitPickup \o pickup_line.pickup_library \o <<"\"">>
           /\ \A j \in (3 + L)..(2 + L + p) : rendered[j] = " "
           /\ SubSeq(rendered, n - R + 1, n)
              = LitDischarge \o pickup_line.discharge_date

\* A rendered pickup line whose segments do not fit in 80 columns
C8_Witness ==
    /\ pc = "pickup_rendered"
    /\ Len(rendered) > 80
    /\ Len(pickup_line.discharge_date) = 10

IsHeaderLine(l) == Contains(l, LitHold)

InputLines == Split(NormalizeLineEndings(text), <<"\n">>)

OutputLines == Split(rendered, <<"\n">>)

HeaderPlaces(ls) == {j \in 1..Len(ls) : IsHeaderLine(ls[j])}

FirstHeaderPlace(ls) ==
    CHOOSE j \in HeaderPlaces(ls) : \A m \in HeaderPlaces(ls) : j <= m

\* The output holds the first header line of the input and no other line
\* that contains "HOLD PICKUP LIST".
OneHeaderKept ==
    /\ Cardinality(HeaderPlaces(OutputLines)) = 1
    /\ \A j \in HeaderPlaces(OutputLines) :
          OutputLines[j] = InputLines[FirstHeaderPlace(InputLines)]

\* No header line among the five lines after the first header line
FirstHeaderSectionClean ==
    \A j \in HeaderPlaces(InputLines) :
        j = FirstHeaderPlace(InputLines) \/ j > FirstHeaderPlace(InputLines) + 5

\* C9 as stated: for any text with a header line, whatever the spacing of
\* its header lines, the function returns, and its output holds the first
\* header line and no other.
C9_OneHeaderAnySpacing ==
    pc = "deduplicated" /\ HeaderPlaces(InputLines) # {} => OneHeaderKept

\* C9 as amended: for any text the loop terminates (every turn of the loop
\* moves i forward, and i stays between 0 and five past the number of
\* lines); when no other header line stands within the five lines after the
\* first one, the output holds the first header line and no other.
C9_OneHeaderWhenSectionsApart ==
    /\ [][pc = "loop" /\ pc' = "loop" => i < Len(lines) /\ i' > i]_vars
    /\ [](pc = "loop" => i \in 0..(Len(lines) + 5))
    /\ [](pc = "deduplicated" /\ HeaderPlaces(InputLines) # {}
          /\ FirstHeaderSectionClean => OneHeaderKept)

\* A returned text whose input had a second header line, six lines or more
\* after the first
C9_Witness ==
    /\ pc = "deduplicated"
    /\ Cardinality(HeaderPlaces(InputLines)) >= 2
    /\ FirstHeaderSectionClean
    /\ Len(OutputLines) < Len(InputLines)

CommaPlaces == {p \in 1..Len(text) : text[p] = ","}

\* The place of the n-th comma of the fragment, or one past its end
CommaPlace(n) ==
    IF Cardinality(CommaPlaces) < n THEN Len(text) + 1
    ELSE CHOOSE p \in CommaPlaces :
            Cardinality({q \in CommaPlaces : q < p}) = n - 1

\* The names, which the statement and its amendment agree on: last_name is
\* the trimmed text before the first comma, first_name the trimmed text
\* between the first and the second; birth_year is None with fewer than two
\* commas.
AuthorNamesRight ==
    /\ author_line # Error
    /\ author_line.last_name = Strip(SubSeq(text, 1, CommaPlace(1) - 1))
    /\ author_line.first_name
       = Strip(SubSeq(text, CommaPlace(1) + 1, CommaPlace(2) - 1))
    /\ Cardinality(CommaPlaces) < 2 => author_line.birth_year = None

\* C10 as stated: birth_year is the trimmed whole remainder after the second
\* comma, without its last character.
C10_BirthYearIsRemainder ==
    pc \in {"author", "author_rendered"} =>
        /\ AuthorNamesRight
        /\ Cardinality(CommaPlaces) >= 2 =>
              author_line.birth_year
              = Some(DropLast(Strip(SubSeq(text, CommaPlace(2) + 1, Len(text)))))

\* C10 as amended: birth_year is the trimmed text between the second comma
\* and the third (or the end of the fragment), without its last character.
C10_BirthYearIsThirdPart ==
    pc \in {"author", "author_rendered"} =>
        /\ AuthorNamesRight
        /\ Cardinality(CommaPlaces) >= 2 =>
              author_line.birth_year
              = Some(DropLast(Strip(SubSeq(text, CommaPlace(2) + 1,
                                           CommaPlace(3) - 1))))

\* An author line built from a fragment with three commas and a year
C10_Witness ==
    /\ pc = "author"
    /\ Cardinality(CommaPlaces) = 3
    /\ author_line.birth_year = Some(<<"a">>)

====
